---- MODULE Spec2Model ----
(***************************************************************************)
(* Model of the reconciliation pipeline of indexer.py: strip_unchanged,    *)
(* strip_content_changes, strip_moves, strip_removal, strip_copy_or_new,   *)
(* strip and compare; and of the index and validate commands of main with *)
(* index, stamp_times, serialize_all and deserialize_all.                  *)
(*                                                                         *)
(* A Python dict is modelled as the sequence of its <<key, value>> pairs   *)
(* in insertion order (keys distinct); a Python list as a sequence.        *)
(* Fingerprints (sha) and paths are small naturals.                        *)
(* A file is a record of its content and its st_mtime.                     *)
(***************************************************************************)
EXTENDS Naturals, Sequences, FiniteSets

\* Bounds of the model.
NumPaths == 3
NumShas == 3
CopyPaths == 2
CopyShas == 2
CliFiles == 1
CliContents == 2
MaxClock == 6

Paths == 1..NumPaths
Shas == 1..NumShas

VARIABLES current, old, old_orig, pc, current_stripped, old_stripped,
          content_changes, moves, removals, copies, new, out,
          disk, clock, blobs

vars == <<current, old, old_orig, pc, current_stripped, old_stripped,
          content_changes, moves, removals, copies, new, out,
          disk, clock, blobs>>

----------------------------------------------------------------------------
\* Python dict and list primitives.

Range(s) == {s[i] : i \in 1..Len(s)}

Min(a, b) == IF a < b THEN a ELSE b

\* The empty dict {}.
EmptyDict == <<>>

\* Keys of a dict.
Keys(d) == {d[i][1] : i \in 1..Len(d)}

\* k in d
Has(d, k) == k \in Keys(d)

\* d[k]
Get(d, k) == d[CHOOSE i \in 1..Len(d) : d[i][1] = k][2]

\* d[k] = v: an existing key keeps its position, a fresh key goes last.
Put(d, k, v) ==
    IF Has(d, k)
    THEN [i \in 1..Len(d) |-> IF d[i][1] = k THEN <<k, v>> ELSE d[i]]
    ELSE Append(d, <<k, v>>)

\* The idiom "if k in d: d[k].append(x) else: d[k] = [x]".
AddTo(d, k, x) ==
    IF Has(d, k) THEN Put(d, k, Append(Get(d, k), x)) ELSE Put(d, k, <<x>>)

\* The order "for sha in d: for path in d[sha]" visits the <<sha, path>> pairs in.
RECURSIVE Entries(_)
Entries(d) ==
    IF d = <<>> THEN <<>>
    ELSE [i \in 1..Len(d[1][2]) |-> <<d[1][1], d[1][2][i]>>] \o Entries(Tail(d))

\* Rebuilds a dict from <<sha, path>> pairs with the AddTo idiom.
RECURSIVE Recreate(_, _)
Recreate(entries, acc) ==
    IF entries = <<>> THEN acc
    ELSE Recreate(Tail(entries), AddTo(acc, entries[1][1], entries[1][2]))

\* A dict as Python's == sees it: keys and values, whatever the insertion order.
AsMap(d) == [k \in Keys(d) |-> Get(d, k)]

----------------------------------------------------------------------------
\* reverse_index: path -> sha.
RECURSIVE ReverseFrom(_, _)
ReverseFrom(entries, acc) ==
    IF entries = <<>> THEN acc
    ELSE ReverseFrom(Tail(entries), Put(acc, entries[1][2], entries[1][1]))

reverse_index(index) == ReverseFrom(Entries(index), EmptyDict)

----------------------------------------------------------------------------
\* Variant of UnchangedSide: the filter is per sha, a sha listed on both
\* sides with a common path is dropped whole.
UnchangedSide_per_sha(a, b) ==
    SelectSeq(a, LAMBDA e : ~Has(b, e[1])
                            \/ Range(e[2]) \cap Range(Get(b, e[1])) = {})

\* Variant of UnchangedSide: a path is compared with the first path of
\* b[sha] only, not with all of them.
UnchangedSide_first_only(a, b) ==
    LET filtered == [i \in 1..Len(a) |->
                       <<a[i][1],
                         SelectSeq(a[i][2],
                             LAMBDA x : ~Has(b, a[i][1])
                                        \/ x # Get(b, a[i][1])[1])>>]
    IN SelectSeq(filtered, LAMBDA e : Len(e[2]) # 0)

\* Stage 1.  One side of strip_unchanged: the paths of a[sha] that are not
\* listed under the same sha in b; a sha left without a path gets no key.
UnchangedSide(a, b) ==
    LET filtered == [i \in 1..Len(a) |->
                       <<a[i][1],
                         SelectSeq(a[i][2],
                             LAMBDA x : ~Has(b, a[i][1])
                                        \/ x \notin Range(Get(b, a[i][1])))>>]
    IN SelectSeq(filtered, LAMBDA e : Len(e[2]) # 0)

\* Variant of strip_unchanged: the two results are returned in the other order.
strip_unchanged_swapped(cur, ol) == <<UnchangedSide(ol, cur), UnchangedSide(cur, ol)>>

\* Returns <<current_stripped, old_stripped>>.
strip_unchanged(cur, ol) == <<UnchangedSide(cur, ol), UnchangedSide(ol, cur)>>

----------------------------------------------------------------------------
\* Variant of ContentChangesFrom: the test "sha != current_paths_to_sha[path]"
\* is left out.
RECURSIVE ContentChangesFrom_any_sha(_, _, _)
ContentChangesFrom_any_sha(entries, current_paths_to_sha, acc) ==
    IF entries = <<>> THEN acc
    ELSE LET sha == entries[1][1]
             path == entries[1][2]
         IN ContentChangesFrom_any_sha(Tail(entries), current_paths_to_sha,
              IF Has(current_paths_to_sha, path)
              THEN Put(acc, path, <<sha, Get(current_paths_to_sha, path)>>)
              ELSE acc)

\* Stage 2.
RECURSIVE ContentChangesFrom(_, _, _)
ContentChangesFrom(entries, current_paths_to_sha, acc) ==
    IF entries = <<>> THEN acc
    ELSE LET sha == entries[1][1]
             path == entries[1][2]
         IN ContentChangesFrom(Tail(entries), current_paths_to_sha,
              IF Has(current_paths_to_sha, path)
                 /\ sha # Get(current_paths_to_sha, path)
              THEN Put(acc, path, <<sha, Get(current_paths_to_sha, path)>>)
              ELSE acc)

\* Variant of strip_content_changes: the changed paths stay in the old residual.
strip_content_changes_keeps_old(cur, ol) ==
    LET cc == ContentChangesFrom(Entries(ol), reverse_index(cur), EmptyDict)
        keep(e) == ~Has(cc, e[2])
    IN <<Recreate(SelectSeq(Entries(cur), keep), EmptyDict), ol, cc>>

\* Returns <<current_stripped, old_stripped, content_changes>>.
strip_content_changes(cur, ol) ==
    LET cc == ContentChangesFrom(Entries(ol), reverse_index(cur), EmptyDict)
        keep(e) == ~Has(cc, e[2])
    IN <<Recreate(SelectSeq(Entries(cur), keep), EmptyDict),
         Recreate(SelectSeq(Entries(ol), keep), EmptyDict),
         cc>>

----------------------------------------------------------------------------
\* Variant of MovePairs: the i-th old path is paired with the i-th current
\* path counted from the end of current[sha].
MovePairs_from_end(cur, ol, sha) ==
    [i \in 1..Min(Len(Get(ol, sha)), Len(Get(cur, sha))) |->
        <<Get(ol, sha)[i], Get(cur, sha)[Len(Get(cur, sha)) + 1 - i]>>]

\* Stage 3.  The pairs moves[sha] of one sha present on both sides.
MovePairs(cur, ol, sha) ==
    [i \in 1..Min(Len(Get(ol, sha)), Len(Get(cur, sha))) |->
        <<Get(ol, sha)[i], Get(cur, sha)[i]>>]

\* moves: for sha in old, if sha in current, one pair per position.
MovesDict(cur, ol) ==
    LET all == [i \in 1..Len(ol) |->
                  <<ol[i][1],
                    IF Has(cur, ol[i][1]) THEN MovePairs(cur, ol, ol[i][1]) ELSE <<>>>>]
    IN SelectSeq(all, LAMBDA e : Len(e[2]) # 0)

\* Variant of strip_moves: every path of a paired sha is skipped, so the
\* unpaired excess is dropped from the residuals.
strip_moves_drops_excess(cur, ol) ==
    LET mv == MovesDict(cur, ol)
    IN <<Recreate(SelectSeq(Entries(cur), LAMBDA e : ~Has(mv, e[1])), EmptyDict),
         Recreate(SelectSeq(Entries(ol), LAMBDA e : ~Has(mv, e[1])), EmptyDict),
         mv>>

\* Variant of strip_moves: only the old side of the pairs is skipped, the
\* current index is returned as it came in.
strip_moves_keeps_current(cur, ol) ==
    LET mv == MovesDict(cur, ol)
        skiplist_old(sha) == {Get(mv, sha)[i][1] : i \in 1..Len(Get(mv, sha))}
        keep_old(e) == ~(Has(mv, e[1]) /\ e[2] \in skiplist_old(e[1]))
    IN <<cur, Recreate(SelectSeq(Entries(ol), keep_old), EmptyDict), mv>>

\* Returns <<current_stripped, old_stripped, moves>>.
strip_moves(cur, ol) ==
    LET mv == MovesDict(cur, ol)
        \* skiplist_old[sha], skiplist_current[sha] as sets of paths
        skiplist_old(sha) == {Get(mv, sha)[i][1] : i \in 1..Len(Get(mv, sha))}
        skiplist_current(sha) == {Get(mv, sha)[i][2] : i \in 1..Len(Get(mv, sha))}
        keep_old(e) == ~(Has(mv, e[1]) /\ e[2] \in skiplist_old(e[1]))
        keep_current(e) == ~(Has(mv, e[1]) /\ e[2] \in skiplist_current(e[1]))
    IN <<Recreate(SelectSeq(Entries(cur), keep_current), EmptyDict),
         Recreate(SelectSeq(Entries(ol), keep_old), EmptyDict),
         mv>>

----------------------------------------------------------------------------
\* Variant of strip_removal: the old residual is returned as it came in.
strip_removal_keeps_old(cur, ol) ==
    <<cur, ol, Recreate(SelectSeq(Entries(ol), LAMBDA e : ~Has(cur, e[1])), EmptyDict)>>

\* Stage 4.  Returns <<current, old_stripped, removals>>.
strip_removal(cur, ol) ==
    LET rm == Recreate(SelectSeq(Entries(ol), LAMBDA e : ~Has(cur, e[1])), EmptyDict)
    IN <<cur,
         Recreate(SelectSeq(Entries(ol), LAMBDA e : ~Has(rm, e[1])), EmptyDict),
         rm>>

----------------------------------------------------------------------------
\* Stage 5.  The "really unexpected case": a sha of current that is in old.
CopyOrNewAsserts(cur, ol) == \E sha \in Keys(cur) : Has(ol, sha)

\* Variant of CopiesDict: the source is the last path of old_orig[sha].
CopiesDict_last_source(cur, orig) ==
    LET all == [i \in 1..Len(cur) |->
                  <<cur[i][1],
                    IF Has(orig, cur[i][1]) /\ Len(cur[i][2]) # 0
                    THEN <<Get(orig, cur[i][1])[Len(Get(orig, cur[i][1]))], cur[i][2]>>
                    ELSE <<>>>>]
    IN SelectSeq(all, LAMBDA e : Len(e[2]) # 0)

\* copies: sha -> <<old_orig[sha][0], [new paths]>> for the shas of current
\* that old_orig knows.
CopiesDict(cur, orig) ==
    LET all == [i \in 1..Len(cur) |->
                  <<cur[i][1],
                    IF Has(orig, cur[i][1]) /\ Len(cur[i][2]) # 0
                    THEN <<Get(orig, cur[i][1])[1], cur[i][2]>>
                    ELSE <<>>>>]
    IN SelectSeq(all, LAMBDA e : Len(e[2]) # 0)

\* Variant of NewDict: the test "sha in old_orig" is left out, every sha
\* left in current is new.
NewDict_ignores_baseline(cur, orig) == cur

\* new: sha -> current[sha] for the shas of current that old_orig does not know.
NewDict(cur, orig) == SelectSeq(cur, LAMBDA e : ~Has(orig, e[1]))

\* Variant of strip_copy_or_new: only the new paths are skipped when the
\* current residual is recreated, the copy destinations stay in it.
strip_copy_or_new_keeps_copies(cur, ol, orig) ==
    LET cp == CopiesDict(cur, orig)
        nw == NewDict(cur, orig)
        keep(e) == ~(Has(nw, e[1]) /\ e[2] \in Range(Get(nw, e[1])))
    IN <<Recreate(SelectSeq(Entries(cur), keep), EmptyDict), ol, cp, nw>>

\* Variant of strip_copy_or_new: copy or new is decided by the old residual
\* passed in instead of the original old index.
strip_copy_or_new_by_residual(cur, ol, orig) ==
    LET cp == CopiesDict(cur, ol)
        nw == NewDict(cur, ol)
        keep(e) == ~(Has(nw, e[1]) /\ e[2] \in Range(Get(nw, e[1])))
                   /\ ~(Has(cp, e[1]) /\ e[2] \in Range(Get(cp, e[1])[2]))
    IN <<Recreate(SelectSeq(Entries(cur), keep), EmptyDict), ol, cp, nw>>

\* Returns <<current_stripped, old, copies, new>>; defined when no assertion fails.
strip_copy_or_new(cur, ol, orig) ==
    LET cp == CopiesDict(cur, orig)
        nw == NewDict(cur, orig)
        keep(e) == ~(Has(nw, e[1]) /\ e[2] \in Range(Get(nw, e[1])))
                   /\ ~(Has(cp, e[1]) /\ e[2] \in Range(Get(cp, e[1])[2]))
    IN <<Recreate(SelectSeq(Entries(cur), keep), EmptyDict), ol, cp, nw>>

----------------------------------------------------------------------------
\* compare: the lines printed after strip, in print order.
Line(kind, path, other, paths) ==
    [kind |-> kind, path |-> path, other |-> other, paths |-> paths]

\* Variant of RemovalLines: the sha is looked up in the stripped current
\* index of the report instead of the index passed to compare.
RemovalLines_residual(rm, cur) ==
    LET e == Entries(rm)
    IN [i \in 1..Len(e) |->
          IF Has(current_stripped, e[i][1])
          THEN Line("duplicate_removed", e[i][2], 0, Get(current_stripped, e[i][1]))
          ELSE Line("removed", e[i][2], 0, <<>>)]

MoveLines(mv) ==
    LET e == Entries(mv)
    IN [i \in 1..Len(e) |-> Line("moved", e[i][2][1], e[i][2][2], <<>>)]

ContentChangeLines(cc) ==
    [i \in 1..Len(cc) |-> Line("changed", cc[i][1], 0, <<>>)]

\* A removed path whose sha is still in the current index is a removed
\* duplicate and its surviving copies current[sha] are named.
RemovalLines(rm, cur) ==
    LET e == Entries(rm)
    IN [i \in 1..Len(e) |->
          IF Has(cur, e[i][1])
          THEN Line("duplicate_removed", e[i][2], 0, Get(cur, e[i][1]))
          ELSE Line("removed", e[i][2], 0, <<>>)]

NewLines(nw) ==
    LET e == Entries(nw)
    IN [i \in 1..Len(e) |-> Line("new", e[i][2], 0, <<>>)]

CopyLines(cp) ==
    LET e == Entries([i \in 1..Len(cp) |-> <<cp[i][2][1], cp[i][2][2]>>])
    IN [i \in 1..Len(e) |-> Line("copied", e[i][1], e[i][2], <<>>)]

----------------------------------------------------------------------------
\* Well-formed snapshots: every path list is non-empty and every path is
\* listed once, under one sha (what index() builds from a directory tree).
PathLists(P) ==
    {s \in UNION {[1..n -> P] : n \in 1..Cardinality(P)} :
        \A i, j \in 1..Len(s) : i # j => s[i] # s[j]}

RECURSIVE SnapshotsOver(_, _)
SnapshotsOver(P, S) ==
    {<<>>} \cup
    UNION {UNION {{<<<<sha, l>>>> \o d : d \in SnapshotsOver(P \ Range(l), S \ {sha})}
                  : l \in PathLists(P)}
           : sha \in S}

\* The pipeline only compares paths with paths and shas with shas for
\* equality, so one argument is taken up to renaming: its shas are numbered
\* in key order and its paths in listing order.
Canonical(d) ==
    /\ \A i \in 1..Len(d) : d[i][1] = i
    /\ \A j \in 1..Len(Entries(d)) : Entries(d)[j][2] = j

Snapshots == SnapshotsOver(Paths, Shas)
CopySnapshots == SnapshotsOver(1..CopyPaths, 1..CopyShas)

\* ChangeDescription.__init__
EmptyReport ==
    /\ current_stripped = EmptyDict
    /\ old_stripped = EmptyDict
    /\ content_changes = EmptyDict
    /\ moves = EmptyDict
    /\ removals = EmptyDict
    /\ copies = EmptyDict
    /\ new = EmptyDict

\* The directory given to the index and validate commands: the user's files
\* and, next to them, the three files serialize_all writes.
UserPaths == 1..CliFiles
IndexFile == CliFiles + 1
ReversedFile == CliFiles + 2
TimestampsFile == CliFiles + 3
DiskPaths == 1..(CliFiles + 3)

\* A path with no file.
Absent(path) ==
    [exists |-> FALSE, content |-> IF path \in UserPaths THEN 0 ELSE <<>>, mtime |-> 0]

\* compare and the stage functions touch no file.
NoDirectory ==
    /\ disk = [path \in DiskPaths |-> Absent(path)]
    /\ clock = 0
    /\ blobs = <<>>

\* compare(current, old) is called with two snapshots; strip passes old as old_orig.
Init ==
    /\ current \in {d \in Snapshots : Canonical(d)}
    /\ old \in Snapshots
    /\ old_orig = old
    /\ pc = "start"
    /\ EmptyReport
    /\ out = <<>>
    /\ NoDirectory

----------------------------------------------------------------------------
\* The steps of strip(current, old), in program order.
StripUnchanged ==
    /\ pc = "start"
    /\ LET r == strip_unchanged(current, old)
       IN /\ current_stripped' = r[1]
          /\ old_stripped' = r[2]
    /\ pc' = "unchanged"
    /\ UNCHANGED <<current, old, old_orig, content_changes, moves, removals,
                   copies, new, out>>
    /\ UNCHANGED <<disk, clock, blobs>>

StripContentChanges ==
    /\ pc = "unchanged"
    /\ LET r == strip_content_changes(current_stripped, old_stripped)
       IN /\ current_stripped' = r[1]
          /\ old_stripped' = r[2]
          /\ content_changes' = r[3]
    /\ pc' = "content_changes"
    /\ UNCHANGED <<current, old, old_orig, moves, removals, copies, new, out>>
    /\ UNCHANGED <<disk, clock, blobs>>

\* Variant of StripMoves: the paired paths are deleted from the dicts that
\* were passed in, which are the caller's objects.
StripMoves_in_place ==
    /\ pc = "content_changes"
    /\ LET r == strip_moves(current_stripped, old_stripped)
       IN /\ current_stripped' = r[1]
          /\ old_stripped' = r[2]
          /\ moves' = r[3]
          /\ current' = strip_moves(current, old)[1]
          /\ old' = strip_moves(current, old)[2]
    /\ pc' = "moves"
    /\ UNCHANGED <<old_orig, content_changes, removals, copies, new, out>>
    /\ UNCHANGED <<disk, clock, blobs>>

StripMoves ==
    /\ pc = "content_changes"
    /\ LET r == strip_moves(current_stripped, old_stripped)
       IN /\ current_stripped' = r[1]
          /\ old_stripped' = r[2]
          /\ moves' = r[3]
    /\ pc' = "moves"
    /\ UNCHANGED <<current, old, old_orig, content_changes, removals, copies,
                   new, out>>
    /\ UNCHANGED <<disk, clock, blobs>>

StripRemoval ==
    /\ pc = "moves"
    /\ LET r == strip_removal(current_stripped, old_stripped)
       IN /\ current_stripped' = r[1]
          /\ old_stripped' = r[2]
          /\ removals' = r[3]
    /\ pc' = "removal"
    /\ UNCHANGED <<current, old, old_orig, content_changes, moves, copies,
                   new, out>>
    /\ UNCHANGED <<disk, clock, blobs>>

\* Stage 5 returns and strip returns the report.  (When a sha is in both
\* residuals "assert False" raises instead: see CallCopyOrNewRaises.)
StripCopyOrNew ==
    /\ pc = "removal"
    /\ ~CopyOrNewAsserts(current_stripped, old_stripped)
    /\ LET r == strip_copy_or_new(current_stripped, old_stripped, old_orig)
       IN /\ current_stripped' = r[1]
          /\ old_stripped' = r[2]
          /\ copies' = r[3]
          /\ new' = r[4]
    /\ pc' = "stripped"
    /\ UNCHANGED <<current, old, old_orig, content_changes, moves, removals, out>>
    /\ UNCHANGED <<disk, clock, blobs>>

\* Variant of ComparePrint: the copies loop runs before the new files loop.
ComparePrint_copies_before_new ==
    /\ pc = "stripped"
    /\ out' = MoveLines(moves) \o ContentChangeLines(content_changes)
              \o RemovalLines(removals, current) \o CopyLines(copies)
              \o NewLines(new)
    /\ pc' = "printed"
    /\ UNCHANGED <<current, old, old_orig, current_stripped, old_stripped,
                   content_changes, moves, removals, copies, new>>
    /\ UNCHANGED <<disk, clock, blobs>>

\* The print loops of compare, after strip has returned.
ComparePrint ==
    /\ pc = "stripped"
    /\ out' = MoveLines(moves) \o ContentChangeLines(content_changes)
              \o RemovalLines(removals, current) \o NewLines(new)
              \o CopyLines(copies)
    /\ pc' = "printed"
    /\ UNCHANGED <<current, old, old_orig, current_stripped, old_stripped,
                   content_changes, moves, removals, copies, new>>
    /\ UNCHANGED <<disk, clock, blobs>>

Next ==
    \/ StripUnchanged
    \/ StripContentChanges
    \/ StripMoves
    \/ StripRemoval
    \/ StripCopyOrNew
    \/ ComparePrint

Spec == Init /\ [][Next]_vars

----------------------------------------------------------------------------
\* The stage functions called on their own, as the unit tests do, with any
\* two well-formed snapshots as arguments.
CallStripUnchanged ==
    /\ pc = "start"
    /\ LET r == strip_unchanged(current, old)
       IN /\ current_stripped' = r[1]
          /\ old_stripped' = r[2]
    /\ pc' = "strip_unchanged"
    /\ UNCHANGED <<current, old, old_orig, content_changes, moves, removals,
                   copies, new, out>>
    /\ UNCHANGED <<disk, clock, blobs>>

\* strip_unchanged called on the pair it returned.
CallStripUnchangedAgain ==
    /\ pc = "strip_unchanged"
    /\ LET r == strip_unchanged(current_stripped, old_stripped)
       IN /\ current_stripped' = r[1]
          /\ old_stripped' = r[2]
    /\ pc' = "strip_unchanged_again"
    /\ UNCHANGED <<current, old, old_orig, content_changes, moves, removals,
                   copies, new, out>>
    /\ UNCHANGED <<disk, clock, blobs>>

CallStripContentChanges ==
    /\ pc = "start"
    /\ LET r == strip_content_changes(current, old)
       IN /\ current_stripped' = r[1]
          /\ old_stripped' = r[2]
          /\ content_changes' = r[3]
    /\ pc' = "strip_content_changes"
    /\ UNCHANGED <<current, old, old_orig, moves, removals, copies, new, out>>
    /\ UNCHANGED <<disk, clock, blobs>>

CallStripMoves ==
    /\ pc = "start"
    /\ LET r == strip_moves(current, old)
       IN /\ current_stripped' = r[1]
          /\ old_stripped' = r[2]
          /\ moves' = r[3]
    /\ pc' = "strip_moves"
    /\ UNCHANGED <<current, old, old_orig, content_changes, removals, copies,
                   new, out>>
    /\ UNCHANGED <<disk, clock, blobs>>

CallStripRemoval ==
    /\ pc = "start"
    /\ LET r == strip_removal(current, old)
       IN /\ current_stripped' = r[1]
          /\ old_stripped' = r[2]
          /\ removals' = r[3]
    /\ pc' = "strip_removal"
    /\ UNCHANGED <<current, old, old_orig, content_changes, moves, copies,
                   new, out>>
    /\ UNCHANGED <<disk, clock, blobs>>

NextStage ==
    \/ CallStripUnchanged
    \/ CallStripUnchangedAgain
    \/ CallStripContentChanges
    \/ CallStripMoves
    \/ CallStripRemoval

SpecStage == Init /\ [][NextStage]_vars

----------------------------------------------------------------------------
\* strip_copy_or_new(current, old, old_orig) called on its own with any three
\* well-formed snapshots.
InitCopy ==
    /\ current \in {d \in CopySnapshots : Canonical(d)}
    /\ old \in CopySnapshots
    /\ old_orig \in CopySnapshots
    /\ pc = "start"
    /\ EmptyReport
    /\ out = <<>>
    /\ NoDirectory

CallCopyOrNewReturns ==
    /\ pc = "start"
    /\ ~CopyOrNewAsserts(current, old)
    /\ LET r == strip_copy_or_new(current, old, old_orig)
       IN /\ current_stripped' = r[1]
          /\ old_stripped' = r[2]
          /\ copies' = r[3]
          /\ new' = r[4]
    /\ pc' = "strip_copy_or_new"
    /\ UNCHANGED <<current, old, old_orig, content_changes, moves, removals, out>>
    /\ UNCHANGED <<disk, clock, blobs>>

\* A sha of current is a key of old: the message naming the sha and both
\* path lists is printed and "assert False" raises AssertionError; nothing is
\* returned.
CallCopyOrNewRaises ==
    /\ pc = "start"
    /\ CopyOrNewAsserts(current, old)
    /\ LET sha == current[CHOOSE i \in 1..Len(current) :
                            /\ Has(old, current[i][1])
                            /\ \A j \in 1..(i - 1) : ~Has(old, current[j][1])][1]
       IN out' = <<Line("unexpected", sha, 0, Get(current, sha) \o Get(old, sha))>>
    /\ pc' = "AssertionError"
    /\ UNCHANGED <<current, old, old_orig, current_stripped, old_stripped,
                   content_changes, moves, removals, copies, new>>
    /\ UNCHANGED <<disk, clock, blobs>>

NextCopy ==
    \/ CallCopyOrNewReturns
    \/ CallCopyOrNewRaises

SpecCopy == InitCopy /\ [][NextCopy]_vars

----------------------------------------------------------------------------
\* The index and validate commands of main, run on one directory.
\*
\* sha1sum: the sha of a user's file is its content (a number in
\* 1..CliContents); the sha of one of the three written files is
\* CliContents + the position of <<path, content>> in blobs, the list of the
\* distinct contents hashed so far, so that equal contents have equal shas
\* and different contents different shas.
\* json.dump followed by json.load gives back the same dict, keys in the
\* same order and mtime floats exactly, so a file's content is the dict.

BlobIndex(x, bl) ==
    IF \E i \in 1..Len(bl) : bl[i] = x
    THEN CHOOSE i \in 1..Len(bl) : bl[i] = x
    ELSE Len(bl) + 1

Registered(x, bl) == IF \E i \in 1..Len(bl) : bl[i] = x THEN bl ELSE Append(bl, x)

sha1sum(path, dk, bl) ==
    IF path \in UserPaths
    THEN dk[path].content
    ELSE CliContents + BlobIndex(<<path, dk[path].content>>, bl)

\* index(dir, old_reversed, old_timestamps, image_mode) without image mode;
\* None and {} are both written EmptyDict (the code tests the caches for
\* truth only).  rglob is taken to list the paths in ascending order.
\* Returns <<"ok", dict, blobs>>, or <<"KeyError", ...>> when
\* old_reversed[str(file_path)] raises.
RECURSIVE IndexFrom(_, _, _, _, _, _)
IndexFrom(path, dk, old_reversed, old_timestamps, dict, bl) ==
    IF path \notin DiskPaths THEN <<"ok", dict, bl>>
    ELSE IF ~dk[path].exists
    THEN IndexFrom(path + 1, dk, old_reversed, old_timestamps, dict, bl)
    ELSE IF /\ old_timestamps # EmptyDict
            /\ old_reversed # EmptyDict
            /\ Has(old_timestamps, path)
            /\ dk[path].mtime = Get(old_timestamps, path)
    THEN IF Has(old_reversed, path)
         THEN IndexFrom(path + 1, dk, old_reversed, old_timestamps,
                        AddTo(dict, Get(old_reversed, path), path), bl)
         ELSE <<"KeyError", dict, bl>>
    ELSE IndexFrom(path + 1, dk, old_reversed, old_timestamps,
                   AddTo(dict, sha1sum(path, dk, bl), path),
                   IF path \in UserPaths THEN bl
                   ELSE Registered(<<path, dk[path].content>>, bl))

index(dk, old_reversed, old_timestamps, bl) ==
    IndexFrom(1, dk, old_reversed, old_timestamps, EmptyDict, bl)

\* stamp_times: path -> st_mtime for the paths of the reverse index.
stamp_times(reverse, dk) ==
    [i \in 1..Len(reverse) |-> <<reverse[i][1], dk[reverse[i][1]].mtime>>]

\* serialize_to_json: asks before overwriting when prompt is set; a written
\* file gets the present time as its mtime.
serialize_to_json(dk, data, path, prompt, confirm) ==
    IF dk[path].exists /\ prompt /\ ~confirm
    THEN dk
    ELSE [dk EXCEPT ![path] = [exists |-> TRUE, content |-> data, mtime |-> clock]]

\* serialize_all: each of the three dicts is written only "if dict:".
serialize_all(dk, index_, reverse, timestamps, prompt, confirm) ==
    LET d1 == IF index_ # EmptyDict
              THEN serialize_to_json(dk, index_, IndexFile, prompt, confirm[1])
              ELSE dk
        d2 == IF reverse # EmptyDict
              THEN serialize_to_json(d1, reverse, ReversedFile, prompt, confirm[2])
              ELSE d1
    IN IF timestamps # EmptyDict
       THEN serialize_to_json(d2, timestamps, TimestampsFile, prompt, confirm[3])
       ELSE d2

\* The lines compare(cur, ol) prints: strip, then the print loops.
compare(cur, ol) ==
    LET u == strip_unchanged(cur, ol)
        c == strip_content_changes(u[1], u[2])
        m == strip_moves(c[1], c[2])
        r == strip_removal(m[1], m[2])
        n == strip_copy_or_new(r[1], r[2], ol)
    IN MoveLines(m[3]) \o ContentChangeLines(c[3]) \o RemovalLines(r[3], cur)
       \o NewLines(n[4]) \o CopyLines(n[3])

\* Some of the user's files exist, nothing has been indexed yet.
InitCli ==
    /\ \E present \in SUBSET UserPaths, content \in [UserPaths -> 1..CliContents] :
          disk = [path \in DiskPaths |->
                     IF path \in present
                     THEN [exists |-> TRUE, content |-> content[path], mtime |-> 0]
                     ELSE Absent(path)]
    /\ clock = 1
    /\ blobs = <<>>
    /\ current = EmptyDict
    /\ old = EmptyDict
    /\ old_orig = EmptyDict
    /\ pc = "start"
    /\ EmptyReport
    /\ out = <<>>

\* The user writes a file: new content, new mtime.
WriteFile ==
    /\ clock < MaxClock
    /\ \E path \in UserPaths, content \in 1..CliContents :
          disk' = [disk EXCEPT ![path] = [exists |-> TRUE, content |-> content,
                                          mtime |-> clock]]
    /\ pc' = "written"
    /\ clock' = clock + 1
    /\ UNCHANGED <<current, old, old_orig, current_stripped, old_stripped,
                   content_changes, moves, removals, copies, new, out, blobs>>

\* The user deletes a file.
DeleteFile ==
    /\ clock < MaxClock
    /\ \E path \in UserPaths :
          /\ disk[path].exists
          /\ disk' = [disk EXCEPT ![path] = Absent(path)]
    /\ pc' = "deleted"
    /\ clock' = clock + 1
    /\ UNCHANGED <<current, old, old_orig, current_stripped, old_stripped,
                   content_changes, moves, removals, copies, new, out, blobs>>

\* main, operation "index": every file is hashed, the three dicts are
\* written, each after its own "already exists. Overwrite?" prompt.
IndexCommand ==
    /\ clock < MaxClock
    /\ \E confirm \in [1..3 -> BOOLEAN] :
          LET i == index(disk, EmptyDict, EmptyDict, blobs)
              d == i[2]
              r == reverse_index(d)
              t == stamp_times(r, disk)
          IN /\ disk' = serialize_all(disk, d, r, t, TRUE, confirm)
             /\ blobs' = i[3]
    /\ pc' = "indexed"
    /\ clock' = clock + 1
    /\ UNCHANGED <<current, old, old_orig, current_stripped, old_stripped,
                   content_changes, moves, removals, copies, new, out>>

\* main, operation "validate" without --baseline, --target and --script:
\* the three dicts are loaded, the directory is indexed with the caches,
\* compare prints the report and the answer to "Overwrite old index?"
\* decides whether serialize_all(current, old_reversed, old_timestamps) runs.
ValidateCommand ==
    /\ clock < MaxClock
    /\ disk[IndexFile].exists
    /\ LET i == index(disk, disk[ReversedFile].content,
                      disk[TimestampsFile].content, blobs)
       IN /\ i[1] = "ok"
          /\ current' = i[2]
          /\ old' = disk[IndexFile].content
          /\ blobs' = i[3]
          /\ out' = compare(i[2], disk[IndexFile].content)
          /\ \E choice \in BOOLEAN :
                IF choice
                THEN /\ disk' = serialize_all(disk, i[2], disk[ReversedFile].content,
                                              disk[TimestampsFile].content, FALSE,
                                              [k \in 1..3 |-> TRUE])
                     /\ pc' = "overwritten"
                ELSE /\ disk' = disk
                     /\ pc' = "validated"
    /\ clock' = clock + 1
    /\ UNCHANGED <<old_orig, current_stripped, old_stripped, content_changes,
                   moves, removals, copies, new>>

\* validate when the timestamp cache knows a path with its present mtime
\* and the reverse cache does not know the path: index raises KeyError.
ValidateKeyError ==
    /\ clock < MaxClock
    /\ disk[IndexFile].exists
    /\ LET i == index(disk, disk[ReversedFile].content,
                      disk[TimestampsFile].content, blobs)
       IN /\ i[1] = "KeyError"
          /\ blobs' = i[3]
    /\ pc' = "KeyError"
    /\ clock' = clock + 1
    /\ UNCHANGED <<current, old, old_orig, current_stripped, old_stripped,
                   content_changes, moves, removals, copies, new, out, disk>>

\* validate without a stored index: deserialize_all gives None for old and
\* strip_unchanged raises TypeError on "for sha in old".
ValidateTypeError ==
    /\ clock < MaxClock
    /\ ~disk[IndexFile].exists
    /\ blobs' = index(disk, disk[ReversedFile].content,
                      disk[TimestampsFile].content, blobs)[3]
    /\ pc' = "TypeError"
    /\ clock' = clock + 1
    /\ UNCHANGED <<current, old, old_orig, current_stripped, old_stripped,
                   content_changes, moves, removals, copies, new, out, disk>>

NextCli ==
    \/ WriteFile
    \/ DeleteFile
    \/ IndexCommand
    \/ ValidateCommand
    \/ ValidateKeyError
    \/ ValidateTypeError

SpecCli == InitCli /\ [][NextCli]_vars

----------------------------------------------------------------------------
\* Vocabulary of the properties.

\* The paths listed in a sha -> [paths] dict.
PathsOf(d) == {Entries(d)[i][2] : i \in 1..Len(Entries(d))}

\* <<sha, path>> is an entry of d.
Listed(d, sha, path) == Has(d, sha) /\ path \in Range(Get(d, sha))

\* Same fingerprint and same path in both snapshots.
IsUnchanged(path) == \E sha \in Shas : Listed(current, sha, path) /\ Listed(old, sha, path)

NoRepeat(s) == \A i, j \in 1..Len(s) : i # j => s[i] # s[j]

StripReturned == pc \in {"stripped", "printed"}

\* The paths of each category of the report, one element per occurrence.
ContentChangeKeys == [i \in 1..Len(content_changes) |-> content_changes[i][1]]
MoveOldSides == [i \in 1..Len(Entries(moves)) |-> Entries(moves)[i][2][1]]
MoveNewSides == [i \in 1..Len(Entries(moves)) |-> Entries(moves)[i][2][2]]
RemovalPaths == [i \in 1..Len(Entries(removals)) |-> Entries(removals)[i][2]]
NewPaths == [i \in 1..Len(Entries(new)) |-> Entries(new)[i][2]]
CopyDestinations ==
    LET e == Entries([i \in 1..Len(copies) |-> <<copies[i][1], copies[i][2][2]>>])
    IN [i \in 1..Len(e) |-> e[i][2]]

Categorised ==
    ContentChangeKeys \o MoveOldSides \o MoveNewSides \o RemovalPaths
    \o CopyDestinations \o NewPaths

\* C1 (exclusivity): once strip(current, old) has returned, no path occurs
\* twice among the content_changes keys, the old and new sides of moves, the
\* removals, the copy destinations and the new paths, and no unchanged path
\* occurs among them at all.
C1_Exclusivity ==
    StripReturned =>
        /\ NoRepeat(Categorised)
        /\ \A p \in Paths : IsUnchanged(p) => p \notin Range(Categorised)

\* A content change next to a removal, with a third path unchanged.
C1_Witness ==
    /\ pc = "stripped"
    /\ content_changes # EmptyDict
    /\ removals # EmptyDict
    /\ \E p \in Paths : IsUnchanged(p)

\* C2 (coverage): once strip has returned, every baseline path that is not
\* unchanged is a content_changes key, the old side of a move or a removal,
\* and every current path that is not unchanged is a content_changes key, the
\* new side of a move, a copy destination or a new path.
C2_Coverage ==
    StripReturned =>
        /\ \A p \in PathsOf(old) :
              ~IsUnchanged(p) =>
                  p \in Range(ContentChangeKeys) \cup Range(MoveOldSides)
                        \cup Range(RemovalPaths)
        /\ \A p \in PathsOf(current) :
              ~IsUnchanged(p) =>
                  p \in Range(ContentChangeKeys) \cup Range(MoveNewSides)
                        \cup Range(CopyDestinations) \cup Range(NewPaths)

\* A move whose sha had one more baseline path, which became a removal.
C2_Witness ==
    /\ pc = "stripped"
    /\ \E fp \in Keys(moves) : Has(removals, fp)

\* C3 (symmetry): strip(S, S) returns a report whose five categories and
\* both residuals are empty.
C3_Symmetry ==
    (StripReturned /\ current = old) =>
        /\ content_changes = EmptyDict
        /\ moves = EmptyDict
        /\ removals = EmptyDict
        /\ copies = EmptyDict
        /\ new = EmptyDict
        /\ current_stripped = EmptyDict
        /\ old_stripped = EmptyDict

\* strip(S, S) has returned for an S with duplicates and several shas.
C3_Witness ==
    /\ pc = "stripped"
    /\ current = old
    /\ Len(current) >= 2
    /\ \E i \in 1..Len(current) : Len(current[i][2]) >= 2

\* The lines compare printed about path.
LinesAbout(path) == {out[i] : i \in {j \in 1..Len(out) : out[j].path = path}}

\* C4 (duplicate versus true removal): after compare, every path of
\* removals[fp] has a "duplicated file removed" line naming all of
\* current[fp] exactly when fp is a key of the current snapshot passed to
\* compare, and a plain "removed" line exactly when it is not.
C4_DuplicateOrTrueRemoval ==
    pc = "printed" =>
        \A i \in 1..Len(Entries(removals)) :
            LET fp == Entries(removals)[i][1]
                path == Entries(removals)[i][2]
                dup == Line("duplicate_removed", path, 0,
                            IF Has(current, fp) THEN Get(current, fp) ELSE <<>>)
                gone == Line("removed", path, 0, <<>>)
            IN /\ (dup \in LinesAbout(path)) <=> Has(current, fp)
               /\ (gone \in LinesAbout(path)) <=> ~Has(current, fp)
               /\ \A l \in LinesAbout(path) :
                     l.kind = "duplicate_removed" => l = dup

\* A removed duplicate with its surviving copy and a true removal, printed by
\* the same run.
C4_Witness ==
    /\ pc = "printed"
    /\ \E i, j \in 1..Len(out) :
          /\ out[i].kind = "duplicate_removed"
          /\ out[i].paths # <<>>
          /\ out[j].kind = "removed"

----------------------------------------------------------------------------
\* Properties of the stage functions called on their own.

\* C5 (copy versus new): when strip_copy_or_new(current, old, old_orig)
\* returns, every sha of current has copies[sha] = [old_orig[sha][0],
\* current[sha]] and no new entry if old_orig has the sha, and new[sha] =
\* current[sha] and no copies entry if it has not; copies and new share no
\* sha and hold nothing else, and no classified path is left in the returned
\* current residual.
C5_CopyOrNew ==
    pc = "strip_copy_or_new" =>
        /\ \A fp \in Keys(current) :
              IF Has(old_orig, fp)
              THEN /\ Has(copies, fp)
                   /\ Get(copies, fp) = <<Get(old_orig, fp)[1], Get(current, fp)>>
                   /\ ~Has(new, fp)
              ELSE /\ Has(new, fp)
                   /\ Get(new, fp) = Get(current, fp)
                   /\ ~Has(copies, fp)
        /\ Keys(copies) \cap Keys(new) = {}
        /\ Keys(copies) \cup Keys(new) \subseteq Keys(current)
        /\ PathsOf(current_stripped)
             \cap (Range(CopyDestinations) \cup Range(NewPaths)) = {}

\* A copy whose sha has two paths in old_orig (the first is the reported
\* source) next to a new sha.
C5_Witness ==
    /\ pc = "strip_copy_or_new"
    /\ new # EmptyDict
    /\ \E fp \in Keys(copies) :
          /\ Len(Get(old_orig, fp)) >= 2
          /\ Get(copies, fp)[1] = Get(old_orig, fp)[1]

\* The part of list l after its first n elements.
Suffix(l, n) == SubSeq(l, n + 1, Len(l))

\* The residual strip_moves must return for side a, paired with side b.
\* (dict as a map: sha -> remaining paths)
UnpairedOf(a, b) ==
    LET paired(fp) == IF Has(b, fp) THEN Min(Len(Get(a, fp)), Len(Get(b, fp))) ELSE 0
    IN [fp \in {k \in Keys(a) : paired(k) < Len(Get(a, k))} |->
           Suffix(Get(a, fp), paired(fp))]

\* C6 (positional pairing): strip_moves(current, old) returns moves whose
\* keys are the shas of both inputs, moves[fp][i] = [old[fp][i],
\* current[fp][i]] for every position up to the shorter list; each residual
\* keeps, per sha, the unpaired suffix of its list (the whole list for a sha
\* of one side only); without a shared sha the residuals are the inputs.
C6_MovesPositional ==
    pc = "strip_moves" =>
        /\ Keys(moves) = Keys(old) \cap Keys(current)
        /\ \A fp \in Keys(moves) :
              /\ Len(Get(moves, fp)) = Min(Len(Get(old, fp)), Len(Get(current, fp)))
              /\ \A i \in 1..Len(Get(moves, fp)) :
                    Get(moves, fp)[i] = <<Get(old, fp)[i], Get(current, fp)[i]>>
        /\ AsMap(old_stripped) = UnpairedOf(old, current)
        /\ AsMap(current_stripped) = UnpairedOf(current, old)
        /\ (Keys(old) \cap Keys(current) = {}) =>
              /\ current_stripped = current
              /\ old_stripped = old
              /\ moves = EmptyDict

\* Two pairs for one sha, an unpaired third path left in the current
\* residual, and a sha of the baseline only.
C6_Witness ==
    /\ pc = "strip_moves"
    /\ \E fp \in Keys(moves) :
          /\ Len(Get(moves, fp)) = 2
          /\ Has(current_stripped, fp)
    /\ old_stripped # EmptyDict

\* path is listed in old under one sha and in current under another.
ContentChanged(path) ==
    \E s1 \in Keys(old), s2 \in Keys(current) :
        s1 # s2 /\ Listed(old, s1, path) /\ Listed(current, s2, path)

\* C7 (content changes): strip_content_changes(current, old) returns
\* content_changes whose keys are exactly the paths listed in old under one
\* sha and in current under another, each with [old sha, new sha]; both
\* residuals keep exactly the other entries, in their order; without a shared
\* path the residuals are the inputs and content_changes is empty.
C7_ContentChanges ==
    pc = "strip_content_changes" =>
        /\ Keys(content_changes) = {p \in Paths : ContentChanged(p)}
        /\ \A p \in Keys(content_changes) :
              /\ Listed(old, Get(content_changes, p)[1], p)
              /\ Listed(current, Get(content_changes, p)[2], p)
        /\ Entries(current_stripped)
             = SelectSeq(Entries(current), LAMBDA e : ~ContentChanged(e[2]))
        /\ Entries(old_stripped)
             = SelectSeq(Entries(old), LAMBDA e : ~ContentChanged(e[2]))
        /\ \A i \in 1..Len(current_stripped) : current_stripped[i][2] # <<>>
        /\ \A i \in 1..Len(old_stripped) : old_stripped[i][2] # <<>>
        /\ (PathsOf(current) \cap PathsOf(old) = {}) =>
              /\ current_stripped = current
              /\ old_stripped = old
              /\ content_changes = EmptyDict

\* A changed path, a path under the same sha on both sides (kept) and a
\* path of one side only (kept).
C7_Witness ==
    /\ pc = "strip_content_changes"
    /\ content_changes # EmptyDict
    /\ \E p \in PathsOf(current_stripped) : IsUnchanged(p)
    /\ \E p \in PathsOf(old_stripped) : p \notin PathsOf(current)

\* C8 (the unchanged filter is per path): strip_unchanged(current, old)
\* returns for each side exactly its entries that are not an entry (same
\* sha, same path) of the other side, in their order, and no sha with an
\* empty list.
C8_UnchangedPerPath ==
    pc = "strip_unchanged" =>
        /\ Entries(current_stripped)
             = SelectSeq(Entries(current), LAMBDA e : ~Listed(old, e[1], e[2]))
        /\ Entries(old_stripped)
             = SelectSeq(Entries(old), LAMBDA e : ~Listed(current, e[1], e[2]))
        /\ \A i \in 1..Len(current_stripped) : current_stripped[i][2] # <<>>
        /\ \A i \in 1..Len(old_stripped) : old_stripped[i][2] # <<>>

\* A sha with three baseline paths of which two are still listed under it
\* in current: only the third stays in the baseline residual.
C8_Witness ==
    /\ pc = "strip_unchanged"
    /\ \E fp \in Keys(old) :
          /\ Len(Get(old, fp)) = 3
          /\ Has(current, fp)
          /\ Len(Get(current, fp)) = 2
          /\ Range(Get(current, fp)) \subseteq Range(Get(old, fp))
          /\ Has(old_stripped, fp)
          /\ Len(Get(old_stripped, fp)) = 1

\* C9 (idempotence): strip_unchanged called on the pair it returned returns
\* that pair.
C9_UnchangedIdempotent ==
    [][(pc = "strip_unchanged" /\ pc' = "strip_unchanged_again") =>
          /\ current_stripped' = current_stripped
          /\ old_stripped' = old_stripped]_vars

\* The second call has returned, for a first call that stripped something
\* and left something on both sides.
C9_Witness ==
    /\ pc = "strip_unchanged_again"
    /\ current_stripped # EmptyDict
    /\ old_stripped # EmptyDict
    /\ current_stripped # current
    /\ Keys(current_stripped) \cap Keys(old_stripped) # {}

\* C10 (removal stage): strip_removal(current, old) returns removals whose
\* keys are the shas of old that are not keys of current, each with all the
\* paths of old[sha] in order; current is returned as it is, and the baseline
\* residual holds exactly the entries of old whose sha is a key of current.
C10_Removal ==
    pc = "strip_removal" =>
        /\ Keys(removals) = Keys(old) \ Keys(current)
        /\ \A fp \in Keys(removals) : Get(removals, fp) = Get(old, fp)
        /\ current_stripped = current
        /\ Entries(old_stripped)
             = SelectSeq(Entries(old), LAMBDA e : Has(current, e[1]))
        /\ \A fp \in Keys(old_stripped) : Get(old_stripped, fp) = Get(old, fp)

\* A removed sha with two paths next to a baseline sha that current still has.
C10_Witness ==
    /\ pc = "strip_removal"
    /\ \E fp \in Keys(removals) : Len(Get(removals, fp)) >= 2
    /\ old_stripped # EmptyDict
    /\ current # EmptyDict

----------------------------------------------------------------------------
\* C11 (residuals): once strip has returned for two well-formed snapshots,
\* the current residual and the baseline residual are both empty.
C11_ResidualsEmpty ==
    StripReturned =>
        /\ current_stripped = EmptyDict
        /\ old_stripped = EmptyDict

\* strip has returned a report with a copy and a new file: both were taken
\* out of the current residual by the last stage.
C11_Witness ==
    /\ pc = "stripped"
    /\ copies # EmptyDict
    /\ new # EmptyDict
    /\ old # EmptyDict

\* Position of a kind of line in the order of the print loops of compare.
KindRank(kind) ==
    CASE kind = "moved" -> 1
      [] kind = "changed" -> 2
      [] kind \in {"removed", "duplicate_removed"} -> 3
      [] kind = "new" -> 4
      [] kind = "copied" -> 5

\* The number of printed lines of the given kinds about path and other.
LineCount(kinds, path, other) ==
    Cardinality({i \in 1..Len(out) :
                    /\ out[i].kind \in kinds
                    /\ out[i].path = path
                    /\ out[i].other = other})

\* C12 (rendering order): compare prints the moves first, then the content
\* changes, the removals, the new files and the copies, and exactly one line
\* per move pair, content-changed path, removed path, new path and copy
\* destination, and no other line.
C12_RenderingOrder ==
    pc = "printed" =>
        /\ \A i, j \in 1..Len(out) :
              i < j => KindRank(out[i].kind) <= KindRank(out[j].kind)
        /\ \A k \in 1..Len(MoveOldSides) :
              LineCount({"moved"}, MoveOldSides[k], MoveNewSides[k]) = 1
        /\ \A k \in 1..Len(ContentChangeKeys) :
              LineCount({"changed"}, ContentChangeKeys[k], 0) = 1
        /\ \A k \in 1..Len(RemovalPaths) :
              LineCount({"removed", "duplicate_removed"}, RemovalPaths[k], 0) = 1
        /\ \A k \in 1..Len(NewPaths) :
              LineCount({"new"}, NewPaths[k], 0) = 1
        /\ \A fp \in Keys(copies) :
              \A k \in 1..Len(Get(copies, fp)[2]) :
                  LineCount({"copied"}, Get(copies, fp)[1], Get(copies, fp)[2][k]) = 1
        /\ Len(out) = Len(MoveOldSides) + Len(ContentChangeKeys)
                      + Len(RemovalPaths) + Len(NewPaths) + Len(CopyDestinations)

\* compare has printed a content change, a new file and a copy.
C12_Witness ==
    /\ pc = "printed"
    /\ \E i, j, k \in 1..Len(out) :
          /\ out[i].kind = "changed"
          /\ out[j].kind = "new"
          /\ out[k].kind = "copied"

C15_AssertUnreachable ==
    /\ pc = "moves" => Keys(current_stripped) \cap Keys(old_stripped) = {}
    /\ pc = "removal" =>
          /\ old_stripped = EmptyDict
          /\ ~CopyOrNewAsserts(current_stripped, old_stripped)

\* strip_removal has returned after a move whose sha had more current paths
\* than baseline paths: the sha is still a key of the current residual.
C15_Witness ==
    /\ pc = "removal"
    /\ \E fp \in Keys(moves) : Has(current_stripped, fp)

\* The paths of side a under fp that the other side b does not list at all:
\* what stages 1 and 2 leave of a[fp].
LeftOf(a, b, fp) ==
    IF Has(a, fp)
    THEN SelectSeq(Get(a, fp), LAMBDA path : path \notin PathsOf(b))
    ELSE <<>>

\* C16 (uneven duplicate counts): for a sha fp with m >= 1 baseline paths
\* and n >= 1 current paths left after stages 1 and 2, moves[fp] pairs the
\* first min(m, n) positions; when m > n the other m - n baseline paths are
\* removals[fp]; when n > m the other n - m current paths are the
\* destinations of copies[fp], whose source is old[fp][0], and are not new.
C16_UnevenDuplicates ==
    StripReturned =>
        \A fp \in Shas :
            LET a == LeftOf(old, current, fp)
                b == LeftOf(current, old, fp)
                m == Len(a)
                n == Len(b)
            IN (m >= 1 /\ n >= 1) =>
                  /\ Has(moves, fp)
                  /\ Get(moves, fp) = [i \in 1..Min(m, n) |-> <<a[i], b[i]>>]
                  /\ m > n => /\ Has(removals, fp)
                              /\ Get(removals, fp) = Suffix(a, n)
                  /\ m <= n => ~Has(removals, fp)
                  /\ n > m => /\ Has(copies, fp)
                              /\ Get(copies, fp) = <<Get(old, fp)[1], Suffix(b, m)>>
                              /\ ~Has(new, fp)
                  /\ n <= m => ~Has(copies, fp)

\* One baseline path and two current paths of one sha, none of them shared:
\* a move and a copy whose source is the moved file.
C16_Witness ==
    /\ pc = "stripped"
    /\ \E fp \in Keys(moves) :
          /\ Len(LeftOf(old, current, fp)) = 1
          /\ Len(LeftOf(current, old, fp)) = 2
          /\ Has(copies, fp)

\* C14 (stage 5 inconsistency): when strip_copy_or_new is given a sha that
\* is a key of both its current and its old argument, the inconsistency is
\* reported with the sha and both path lists and the call still returns a
\* result to its caller.
C14_InconsistencyReported ==
    (pc # "start" /\ CopyOrNewAsserts(current, old)) =>
        /\ \E i \in 1..Len(out), fp \in Keys(current) \cap Keys(old) :
              out[i] = Line("unexpected", fp, 0, Get(current, fp) \o Get(old, fp))
        /\ pc = "strip_copy_or_new"

\* C18 (copy source is an unchanged file): once strip has returned, the
\* source of every copies[fp] is still listed under fp in current and is not
\* the old side of a move, a removal or a content-changed path.
C18_CopySourceUnchanged ==
    StripReturned =>
        \A fp \in Keys(copies) :
            LET source == Get(copies, fp)[1]
            IN /\ Listed(current, fp, source)
               /\ source \notin Range(MoveOldSides) \cup Range(RemovalPaths)
                                \cup Range(ContentChangeKeys)

\* C17 (cached fingerprints): the current snapshot a validate run builds
\* lists every file of the directory under the sha of its present content
\* (for the three written files: when the run did not rewrite them).
C17_SnapshotOfPresentContent ==
    pc \in {"validated", "overwritten"} =>
        /\ \A path \in UserPaths :
              disk[path].exists => Listed(current, disk[path].content, path)
        /\ pc = "validated" =>
              \A path \in DiskPaths \ UserPaths :
                  disk[path].exists => Listed(current, sha1sum(path, disk, blobs), path)

\* C19 (accepted overwrite makes the next validate quiet): after a validate
\* run whose overwrite was accepted the stored index is the current snapshot
\* of that run, and a validate run that follows it with no change of the
\* user's files in between prints no line.
C19_QuietAfterOverwrite ==
    [][/\ pc' = "overwritten" =>
             /\ disk'[IndexFile].exists
             /\ disk'[IndexFile].content = current'
       /\ (pc = "overwritten" /\ pc' \in {"validated", "overwritten"}) =>
             out' = <<>>]_vars

\* C20 (the three written files stay consistent): after a validate run
\* whose overwrite was accepted the stored reverse index is
\* reverse_index(stored index) and the stored timestamp index has an entry
\* for exactly the paths of the stored index.
C20_StoredFilesConsistent ==
    pc = "overwritten" =>
        /\ disk[ReversedFile].content = reverse_index(disk[IndexFile].content)
        /\ Keys(disk[TimestampsFile].content) = PathsOf(disk[IndexFile].content)

\* The old fingerprints of the content changes.
ContentChangeOldShas == {content_changes[i][2][1] : i \in 1..Len(content_changes)}

\* C21 (fingerprint sets do not conflict): once strip has returned, no sha
\* is a key of both removals and copies, and a key of new is not a key of
\* moves, removals or copies, is not the old sha of a content change and is
\* not a key of the original baseline.
C21_FingerprintSetsDisjoint ==
    StripReturned =>
        /\ Keys(removals) \cap Keys(copies) = {}
        /\ \A fp \in Keys(new) :
              /\ fp \notin Keys(moves) \cup Keys(removals) \cup Keys(copies)
              /\ fp \notin ContentChangeOldShas
              /\ fp \notin Keys(old)

\* A report with a removal, a copy and a content change, each under its own
\* sha of the baseline.
C21_Witness ==
    /\ pc = "stripped"
    /\ removals # EmptyDict
    /\ copies # EmptyDict
    /\ content_changes # EmptyDict

\* The other case of C21: a report with a new file next to a move.
C21_WitnessNew ==
    /\ pc = "stripped"
    /\ new # EmptyDict
    /\ moves # EmptyDict

====
